---- MODULE Spec2Model ----
(***************************************************************************)
(* A model of lua-bundle (src/bin/bundle/main.rs): the manifest loader,    *)
(* the project resolver, the bundle assembler and the text functions they  *)
(* drive.  Text is a sequence of tokens: a token is one character ("x",    *)
(* the line feed LF, the carriage return CR, the tab TAB, ...) or one      *)
(* literal chunk of the program's format strings that holds no line break. *)
(***************************************************************************)
EXTENDS Naturals, Sequences, FiniteSets, TLC

VARIABLES
    manifest,    \* build.toml as found in the working directory
    pc,          \* position of main: load, resolve, build, file, done, aborted
    idx,         \* from_workspace: number of project tables already visited
    projects,    \* BuildFile.projects, the resolved projects in push order
    origin,      \* for each resolved project, the index of its manifest table
    errors,      \* the lines printed by eprintln!, in order
    cur,         \* main: index of the project being built
    fileIdx,     \* Project::build: index of the file being processed
    output,      \* Project::build: the output buffer
    srcs,        \* Project::build: the text handed to insert_module, per file
    calls,       \* the fennel processes run so far: project, file, input, output
    disk,        \* the output files on disk: path -> text
    written,     \* the completed std::fs::write calls, in order
    abortCause,  \* why the process panicked, "none" while it has not
    tin,         \* text functions: the arguments of the function applied
    tout,        \* text functions: its result
    tpc          \* text functions: which function has been applied

vars == <<manifest, pc, idx, projects, origin, errors, cur, fileIdx, output,
          srcs, calls, disk, written, abortCause, tin, tout, tpc>>

runVars == <<manifest, pc, idx, projects, origin, errors, cur, fileIdx, output,
             srcs, calls, disk, written, abortCause>>

textVars == <<tin, tout, tpc>>

----------------------------------------------------------------------------
(* Bounds of the model. *)

MaxProjects == 2
MaxPathLen == 6
MaxSrcLen == 4
MaxKeyLen == 2
MaxLevel == 2

----------------------------------------------------------------------------
(* Characters and generic sequence helpers. *)

LF == "LF"
CR == "CR"
TAB == "TAB"
DOT == "."
SEP == "/"

None == <<>>

Some(x) == <<x>>

RECURSIVE Concat(_)
Concat(ss) == IF ss = <<>> THEN <<>> ELSE Head(ss) \o Concat(Tail(ss))

Last(s) == s[Len(s)]

Front(s) == SubSeq(s, 1, Len(s) - 1)

Positions(s, c) == {i \in 1..Len(s) : s[i] = c}

Max(S) == CHOOSE m \in S : \A n \in S : n <= m

SeqsUpTo(A, n) == UNION {[1..k -> A] : k \in 0..n}

----------------------------------------------------------------------------
(* str::lines, [String]::join and "\t".repeat as indent_block uses them. *)

\* One piece of split_inclusive('\n'): the line feed is stripped, and then a
\* carriage return that stood right before it.
StripLine(piece) ==
    IF piece # <<>> /\ Last(piece) = LF
    THEN LET l == Front(piece)
         IN IF l # <<>> /\ Last(l) = CR THEN Front(l) ELSE l
    ELSE piece

RECURSIVE SplitFrom(_, _, _)
SplitFrom(s, i, piece) ==
    IF i > Len(s)
    THEN IF piece = <<>> THEN <<>> ELSE <<StripLine(piece)>>
    ELSE IF s[i] = LF
         THEN <<StripLine(Append(piece, LF))>> \o SplitFrom(s, i + 1, <<>>)
         ELSE SplitFrom(s, i + 1, Append(piece, s[i]))

lines(s) == SplitFrom(s, 1, <<>>)

RECURSIVE join(_, _)
join(ls, sep) ==
    IF ls = <<>> THEN <<>>
    ELSE IF Len(ls) = 1 THEN ls[1]
    ELSE ls[1] \o <<sep>> \o join(Tail(ls), sep)

repeat(c, n) == [i \in 1..n |-> c]

PadLine(line, level) == repeat(TAB, level) \o line

indent_block(block, level) ==
    LET ls == lines(block)
    IN join([i \in 1..Len(ls) |-> PadLine(ls[i], level)], LF)

DEFAULT_REQUIRE_FUNCTION == <<"require">>

inject_require(code, require) ==
    <<"local ">> \o require
    \o <<", functions, get_require = get_require(functions), nil, nil">>
    \o <<LF, LF>> \o code

\* A variant that does not indent the body inside the factory function.
insert_module_flat(file, code, require, level) ==
    indent_block(
        <<LF, "[\"">> \o file \o <<"\"] = function(functions)", LF>>
        \o inject_require(code, require) \o <<LF, "end,", LF>>,
        level)

insert_module(file, code, require, level) ==
    LET body == indent_block(inject_require(code, require), 1)
    IN indent_block(
           <<LF, "[\"">> \o file \o <<"\"] = function(functions)", LF>>
           \o body \o <<LF, "end,", LF>>,
           level)

insert_entry_point(entry_point) ==
    <<LF, "functions.new({", LF, "    files = files,", LF,
      "    modules = {},", LF, "}):require(\"">> \o entry_point \o <<"\")">>

----------------------------------------------------------------------------
(* std::path as path_without_extension and Project::build use it (Unix).   *)
(* A path is a sequence of characters.                                     *)

has_root(p) == p # <<>> /\ p[1] = SEP

\* Components::include_cur_dir: a leading "." is a component of its own.
include_cur_dir(p) ==
    /\ ~has_root(p)
    /\ p # <<>>
    /\ p[1] = DOT
    /\ (Len(p) = 1 \/ p[2] = SEP)

len_before_body(p) ==
    (IF has_root(p) THEN 1 ELSE 0) + (IF include_cur_dir(p) THEN 1 ELSE 0)

\* Components::parse_next_component_back on the prefix p[1..n]: where the
\* last piece of the body starts (after the last separator of the body).
BackStart(p, n) ==
    LET seps == {i \in (len_before_body(p) + 1)..n : p[i] = SEP}
    IN IF seps = {} THEN len_before_body(p) + 1 ELSE Max(seps) + 1

\* The separator before the piece is consumed with it.
BackCut(p, n) ==
    LET seps == {i \in (len_before_body(p) + 1)..n : p[i] = SEP}
    IN IF seps = {} THEN len_before_body(p) ELSE Max(seps) - 1

\* parse_single_component: empty pieces and "." are no components.
IsComponent(piece) == piece # <<>> /\ piece # <<DOT>>

\* Components::trim_right: the length left once trailing separators and
\* "." pieces of the body are dropped.
RECURSIVE TrimRight(_, _)
TrimRight(p, n) ==
    IF n <= len_before_body(p) THEN n
    ELSE IF IsComponent(SubSeq(p, BackStart(p, n), n)) THEN n
    ELSE TrimRight(p, BackCut(p, n))

\* Path::file_name: the last component when it is a normal one.
file_name(p) ==
    LET n == TrimRight(p, Len(p))
    IN IF n <= len_before_body(p) THEN None
       ELSE LET piece == SubSeq(p, BackStart(p, n), n)
            IN IF piece = <<DOT, DOT>> THEN None ELSE Some(piece)

\* Path::parent, for a path with a last component: what is left of it,
\* trimmed (Components::as_path).
parent(p) ==
    LET n == TrimRight(p, Len(p))
    IN SubSeq(p, 1, TrimRight(p, BackCut(p, n)))

\* rsplit_file_at_dot: (before, after) around the last dot of a file name.
rsplit_file_at_dot(name) ==
    IF name = <<DOT, DOT>> THEN <<Some(name), None>>
    ELSE IF Positions(name, DOT) = {} THEN <<None, Some(name)>>
    ELSE LET d == Max(Positions(name, DOT))
         IN IF d = 1 THEN <<Some(name), None>>
            ELSE <<Some(SubSeq(name, 1, d - 1)),
                   Some(SubSeq(name, d + 1, Len(name)))>>

\* Path::file_stem: before.or(after).
file_stem(p) ==
    IF file_name(p) = None THEN None
    ELSE LET ba == rsplit_file_at_dot(file_name(p)[1])
         IN IF ba[1] # None THEN ba[1] ELSE ba[2]

\* Path::extension: before.and(after).
extension(p) ==
    IF file_name(p) = None THEN None
    ELSE LET ba == rsplit_file_at_dot(file_name(p)[1])
         IN IF ba[1] # None THEN ba[2] ELSE None

\* PathBuf::push of a relative path: a separator is added unless the buffer
\* is empty or ends in one.
push(p, name) ==
    IF p # <<>> /\ Last(p) # SEP THEN p \o <<SEP>> \o name ELSE p \o name

\* PathBuf::set_file_name: pop the file name, when there is one, and push.
set_file_name(p, name) ==
    push(IF file_name(p) # None THEN parent(p) ELSE p, name)

\* A variant that cuts the path at its last dot, wherever the dot stands.
path_cut_at_last_dot(path) ==
    IF Positions(path, DOT) = {} \/ Max(Positions(path, DOT)) = 1 THEN path
    ELSE SubSeq(path, 1, Max(Positions(path, DOT)) - 1)

path_without_extension(path) ==
    IF file_stem(path) # None
    THEN set_file_name(path, file_stem(path)[1])
    ELSE path

----------------------------------------------------------------------------
(* The working directory the run finds: source files, one directory, and   *)
(* the manifests build.toml may hold.                                      *)

BUILD_FILE == <<"build.toml">>

MainLua == <<"m", DOT, "l", "u", "a">>
UtilFnl == <<"u", DOT, "f", "n", "l">>
Makefile == <<"M", "k">>
DotRc == <<DOT, "r", "c">>
LibDir == <<"d">>
LibA == <<"d", SEP, "a", DOT, "l", "u", "a">>
LibB == <<"d", SEP, "b", DOT, "f", "n", "l">>
Missing == <<"n", "o", DOT, "l", "u", "a">>

FsFiles == {MainLua, UtilFnl, Makefile, DotRc, LibA, LibB}

FsDirs == {LibDir}

is_file(path) == path \in FsFiles

is_dir(path) == path \in FsDirs

exists(path) == is_file(path) \/ is_dir(path)

\* read_dir yields the entries of a directory in an order of its own.
ReadDirOrders == {<<LibA, LibB>>, <<LibB, LibA>>}

\* std::fs::read_to_string of a source file.
Content(path) ==
    CASE path = MainLua -> <<"x", LF, LF, TAB, "y", LF>>
      [] path = UtilFnl -> <<"(", "u", ")">>
      [] path = Makefile -> <<"all:", LF, TAB, "x">>
      [] path = DotRc -> <<"r">>
      [] path = LibA -> <<"a", CR, LF>>
      [] path = LibB -> <<"(", "b", ")", LF>>
      [] OTHER -> <<>>

\* TOML values and the accessors that the parser unwraps.
Str(s) == [kind |-> "string", val |-> s]

Arr(a) == [kind |-> "array", val |-> a]

Int == [kind |-> "integer", val |-> <<>>]

as_str(v) == IF v.kind = "string" THEN Some(v.val) ELSE None

as_array(v) == IF v.kind = "array" THEN Some(v.val) ELSE None

Table(name, entry_point, lua_version, files) ==
    [name |-> name, output |-> None, entry_point |-> entry_point,
     lua_version |-> lua_version, files |-> files]

List(paths) == Some(Arr([i \in 1..Len(paths) |-> Str(paths[i])]))

\* The [[project]] tables a manifest is made of.
Tables ==
    { Table(None, Some(Str(MainLua)), None, List(<<MainLua, UtilFnl>>)),
      Table(Some(Str(<<"x">>)), Some(Str(MainLua)), Some(Str(<<"Fennel">>)),
            List(<<MainLua, UtilFnl>>)),
      Table(None, Some(Str(LibA)), Some(Str(<<"bogus">>)),
            List(<<LibDir, LibA>>)),
      Table(None, Some(Str(Missing)), None, List(<<MainLua>>)),
      Table(None, None, None, List(<<MainLua>>)),
      Table(None, Some(Str(MainLua)), None, None),
      Table(None, Some(Str(MainLua)), None, List(<<MainLua, Missing>>)),
      Table(Some(Str(<<"x">>)), Some(Str(MainLua)), None,
            List(<<MainLua, Makefile>>)),
      Table(None, Some(Str(MainLua)), Some(Str(<<"Luau">>)),
            List(<<DotRc>>)),
      Table(Some(Int), Some(Str(MainLua)), None, List(<<MainLua>>)),
      Table(Some(Str(<<"x">>)), Some(Str(Makefile)), Some(Str(<<"Lua51">>)),
            List(<<>>)) }

Manifests ==
    {[state |-> "absent", tables |-> <<>>],
     [state |-> "unreadable", tables |-> <<>>],
     [state |-> "nolist", tables |-> <<>>]}
    \cup {[state |-> "list", tables |-> ts] : ts \in SeqsUpTo(Tables, MaxProjects)}

----------------------------------------------------------------------------
(* The project resolver.                                                   *)

\* impl From<&str> for LuaVersion.
LuaVersionFrom(string) ==
    CASE string = <<"Lua51">> -> "Lua51"
      [] string = <<"Luau">> -> "Luau"
      [] string = <<"Fennel">> -> "Fennel"
      [] OTHER -> "Default"

RECURSIVE files_from_path(_, _)
files_from_path(path, order) ==
    (IF is_file(path) THEN <<path>> ELSE <<>>)
    \o (IF is_dir(path)
        THEN Concat([i \in 1..Len(order) |-> files_from_path(order[i], order)])
        ELSE <<>>)

\* The messages of eprintln!, without their backquotes.
E_NoBuildFile == "error: could not find build.toml file"
E_NoProjectField == "error: missing [[project]] field in build.toml"
E_EntryInvalid == "error: a project entry contains an invalid file in the entry_point"
E_EntryMissing == "error: a project entry is missing a entry_point file"
E_FilesInvalid == "error: a project entry contains an invalid file in the files list"
E_FilesMissing == "error: a project entry is missing a files list"

Resolved(project) == [result |-> "some", project |-> project, error |-> ""]

Skipped(error) == [result |-> "none", project |-> <<>>, error |-> error]

Panicked == [result |-> "panic", project |-> <<>>, error |-> ""]

\* The loop over the files array: the first path that does not exist
\* ends it; an entry that is no string panics.
RECURSIVE ListedFiles(_, _, _, _)
ListedFiles(array, i, acc, order) ==
    IF i > Len(array) THEN Resolved(acc)
    ELSE IF as_str(array[i]) = None THEN Panicked
    ELSE LET entry == as_str(array[i])[1]
         IN IF ~exists(entry) THEN Skipped(E_FilesInvalid)
            ELSE ListedFiles(array, i + 1,
                             acc \o files_from_path(entry, order), order)

parse_project(table, order) ==
    IF table.name # None /\ as_str(table.name[1]) = None THEN Panicked
    ELSE IF table.output # None /\ as_str(table.output[1]) = None THEN Panicked
    ELSE
    LET name == (IF table.name # None THEN as_str(table.name[1])[1]
                 ELSE <<"a">>) \o <<".lua">>
        out == IF table.output # None THEN as_str(table.output[1])[1]
               ELSE <<"build">>
    IN
    IF table.entry_point = None THEN Skipped(E_EntryMissing)
    ELSE IF as_str(table.entry_point[1]) = None THEN Panicked
    ELSE IF ~exists(as_str(table.entry_point[1])[1]) THEN Skipped(E_EntryInvalid)
    ELSE IF table.lua_version # None /\ as_str(table.lua_version[1]) = None
         THEN Panicked
    ELSE IF table.files = None THEN Skipped(E_FilesMissing)
    ELSE IF as_array(table.files[1]) = None THEN Panicked
    ELSE
    LET listed == ListedFiles(as_array(table.files[1])[1], 1, <<>>, order)
    IN IF listed.result # "some" THEN listed
       ELSE Resolved([name |-> name,
                      output |-> out,
                      entry_point |-> as_str(table.entry_point[1])[1],
                      files |-> listed.project,
                      lua_version |->
                          IF table.lua_version # None
                          THEN LuaVersionFrom(as_str(table.lua_version[1])[1])
                          ELSE "Default"])

----------------------------------------------------------------------------
(* The bundle assembler and the run of main.                               *)

\* include_str!("lua.lua"): the runtime, one opaque chunk.
Preamble == <<"lua.lua">>

Fnl == <<"f", "n", "l">>

\* What the fennel process may write to its output for a source: a
\* translation of it, or nothing when it fails (its status is not read).
CompilerOutputs(source) == {<<"return ">> \o source, <<>>}

\* A variant of the loop that skips a path it has bundled already.
RECURSIVE Deduplicated(_)
Deduplicated(files) ==
    IF files = <<>> THEN <<>>
    ELSE LET front == Deduplicated(Front(files))
         IN IF \E i \in 1..Len(front) : front[i] = Last(files)
            THEN front ELSE Append(front, Last(files))

FilesDeduplicated(project) == Deduplicated(project.files)

\* Project::build, line 49: the files the loop goes through.
FilesToBundle(project) == project.files

\* A variant of the dispatch that also follows the declared dialect.
NeedsCompileByDialect(project, file) ==
    extension(file)[1] = Fnl \/ project.lua_version = "Fennel"

\* Project::build, line 56: whether the contents go through the compiler.
\* The caller has unwrapped the extension already.
NeedsCompile(project, file) == extension(file)[1] = Fnl

\* Project::build, lines 65-69: the argument of the entry-point invocation.
EntryKey(project) == path_without_extension(project.entry_point)

\* Project::build, line 75: where the bundle goes.
OutputPath(project) == push(project.output, project.name)

EmptyDisk == [p \in {} |-> <<>>]

WriteFile(d, path, text) ==
    [p \in DOMAIN d \cup {path} |-> IF p = path THEN text ELSE d[p]]

\* A variant of the failed write that rolls the earlier outputs back.
DiskRolledBack(d, path, opened) == EmptyDisk

\* std::fs::write that fails: the file could not be opened and nothing has
\* changed, or it has been opened, which truncates it, and the write failed.
DiskAfterFailedWrite(d, path, opened) ==
    IF opened THEN WriteFile(d, path, <<>>) ELSE d

Abort(cause) ==
    /\ pc' = "aborted"
    /\ abortCause' = cause

Init ==
    /\ manifest \in Manifests
    /\ pc = "load"
    /\ idx = 0
    /\ projects = <<>>
    /\ origin = <<>>
    /\ errors = <<>>
    /\ cur = 0
    /\ fileIdx = 0
    /\ output = <<>>
    /\ srcs = <<>>
    /\ calls = <<>>
    /\ disk = EmptyDisk
    /\ written = <<>>
    /\ abortCause = "none"
    /\ tin = <<>>
    /\ tout = <<>>
    /\ tpc = "idle"

\* A variant of the loader that takes a manifest without the project list
\* for one with an empty list.
LoadManifestLenient ==
    /\ pc = "load"
    /\ \/ /\ manifest.state = "absent"
          /\ errors' = Append(errors, E_NoBuildFile)
          /\ pc' = "done"
          /\ UNCHANGED abortCause
       \/ /\ manifest.state = "unreadable"
          /\ Abort("manifest")
          /\ UNCHANGED errors
       \/ /\ manifest.state \in {"nolist", "list"}
          /\ pc' = "resolve"
          /\ UNCHANGED <<errors, abortCause>>
    /\ UNCHANGED <<manifest, idx, projects, origin, cur, fileIdx, output,
                   srcs, calls, disk, written, textVars>>

\* BuildFile::from_workspace up to the loop over the project tables.
LoadManifest ==
    /\ pc = "load"
    /\ \/ /\ manifest.state = "absent"
          /\ errors' = Append(errors, E_NoBuildFile)
          /\ pc' = "done"
          /\ UNCHANGED abortCause
       \/ /\ manifest.state = "unreadable"
          /\ Abort("manifest")
          /\ UNCHANGED errors
       \/ /\ manifest.state = "nolist"
          /\ errors' = Append(errors, E_NoProjectField)
          /\ pc' = "done"
          /\ UNCHANGED abortCause
       \/ /\ manifest.state = "list"
          /\ pc' = "resolve"
          /\ UNCHANGED <<errors, abortCause>>
    /\ UNCHANGED <<manifest, idx, projects, origin, cur, fileIdx, output,
                   srcs, calls, disk, written, textVars>>

\* One turn of the loop of from_workspace: parse_project on the next table.
ParseProject ==
    /\ pc = "resolve"
    /\ idx < Len(manifest.tables)
    /\ idx' = idx + 1
    /\ \E order \in ReadDirOrders :
         LET r == parse_project(manifest.tables[idx + 1], order)
         IN \/ /\ r.result = "some"
               /\ projects' = Append(projects, r.project)
               /\ origin' = Append(origin, idx + 1)
               /\ UNCHANGED <<errors, pc, abortCause>>
            \/ /\ r.result = "none"
               /\ errors' = Append(errors, r.error)
               /\ UNCHANGED <<projects, origin, pc, abortCause>>
            \/ /\ r.result = "panic"
               /\ Abort("toml")
               /\ UNCHANGED <<projects, origin, errors>>
    /\ UNCHANGED <<manifest, cur, fileIdx, output, srcs, calls, disk,
                   written, textVars>>

\* A variant of main that starts building once one table has been visited.
ResolveDoneEarly ==
    /\ pc = "resolve"
    /\ idx >= 1 \/ idx = Len(manifest.tables)
    /\ pc' = "build"
    /\ cur' = 1
    /\ UNCHANGED <<manifest, idx, projects, origin, errors, fileIdx, output,
                   srcs, calls, disk, written, abortCause, textVars>>

\* from_workspace returns the BuildFile and main enters its loop.
ResolveDone ==
    /\ pc = "resolve"
    /\ idx = Len(manifest.tables)
    /\ pc' = "build"
    /\ cur' = 1
    /\ UNCHANGED <<manifest, idx, projects, origin, errors, fileIdx, output,
                   srcs, calls, disk, written, abortCause, textVars>>

\* Project::build, lines 46-48: the buffer starts with the runtime and the
\* opening of the module table.
StartBuild ==
    /\ pc = "build"
    /\ cur <= Len(projects)
    /\ output' = Preamble \o <<LF, "local files = {">>
    /\ srcs' = <<>>
    /\ fileIdx' = 1
    /\ pc' = "file"
    /\ UNCHANGED <<manifest, idx, projects, origin, errors, cur, calls, disk,
                   written, abortCause, textVars>>

\* One turn of the loop of Project::build, lines 49-61.
BuildFile ==
    /\ pc = "file"
    /\ fileIdx <= Len(FilesToBundle(projects[cur]))
    /\ LET project == projects[cur]
           file == FilesToBundle(project)[fileIdx]
           name == path_without_extension(file)
           content == Content(file)
           wrap(code) ==
               /\ output' = output \o insert_module(name, code,
                                        DEFAULT_REQUIRE_FUNCTION, 1)
               /\ srcs' = Append(srcs, code)
               /\ fileIdx' = fileIdx + 1
               /\ UNCHANGED <<pc, abortCause>>
           stop(cause) ==
               /\ Abort(cause)
               /\ UNCHANGED <<output, srcs, fileIdx, calls>>
       IN \/ stop("read")
          \/ /\ extension(file) = None
             /\ stop("extension")
          \/ /\ extension(file) # None
             /\ ~NeedsCompile(project, file)
             /\ wrap(content)
             /\ UNCHANGED calls
          \/ /\ extension(file) # None
             /\ NeedsCompile(project, file)
             /\ stop("launch")
          \/ /\ extension(file) # None
             /\ NeedsCompile(project, file)
             /\ \E compiled \in CompilerOutputs(content) :
                  /\ calls' = Append(calls, [proj |-> cur, idx |-> fileIdx,
                                             src |-> content, out |-> compiled])
                  /\ wrap(compiled)
    /\ UNCHANGED <<manifest, idx, projects, origin, errors, cur, disk,
                   written, textVars>>

\* Project::build, lines 62-75: the table is closed, the entry point is
\* invoked, the directory is made and the file is written.
FinishBuild ==
    /\ pc = "file"
    /\ fileIdx > Len(FilesToBundle(projects[cur]))
    /\ LET project == projects[cur]
           text == output \o <<LF, "}", LF>>
                   \o insert_entry_point(EntryKey(project))
           path == OutputPath(project)
       IN /\ output' = text
          /\ \/ /\ Abort("mkdir")
                /\ UNCHANGED <<disk, written, cur>>
             \/ /\ \E opened \in BOOLEAN :
                     disk' = DiskAfterFailedWrite(disk, path, opened)
                /\ Abort("write")
                /\ UNCHANGED <<written, cur>>
             \/ /\ disk' = WriteFile(disk, path, text)
                /\ written' = Append(written,
                       [proj |-> cur, path |-> path, text |-> text,
                        srcs |-> srcs])
                /\ cur' = cur + 1
                /\ pc' = "build"
                /\ UNCHANGED abortCause
    /\ UNCHANGED <<manifest, idx, projects, origin, errors, fileIdx, srcs,
                   calls, textVars>>

\* The loop of main is over and main returns.
MainReturn ==
    /\ pc = "build"
    /\ cur > Len(projects)
    /\ pc' = "done"
    /\ UNCHANGED <<manifest, idx, projects, origin, errors, cur, fileIdx,
                   output, srcs, calls, disk, written, abortCause, textVars>>

Next ==
    \/ LoadManifest
    \/ ParseProject
    \/ ResolveDone
    \/ StartBuild
    \/ BuildFile
    \/ FinishBuild
    \/ MainReturn

Spec == Init /\ [][Next]_vars

----------------------------------------------------------------------------
(* The text functions on their own: the inputs are drawn from bounded sets *)
(* and one step applies the function.                                      *)

PathChars == {"a", "B", DOT, SEP}

SrcChars == {"x", TAB, LF, CR}

KeyChars == {"k", "\"", LF}

RunIdle ==
    /\ manifest = [state |-> "absent", tables |-> <<>>]
    /\ pc = "idle"
    /\ idx = 0
    /\ projects = <<>>
    /\ origin = <<>>
    /\ errors = <<>>
    /\ cur = 0
    /\ fileIdx = 0
    /\ output = <<>>
    /\ srcs = <<>>
    /\ calls = <<>>
    /\ disk = EmptyDisk
    /\ written = <<>>
    /\ abortCause = "none"

InitPath ==
    /\ RunIdle
    /\ tin \in [path : SeqsUpTo(PathChars, MaxPathLen)]
    /\ tout = <<>>
    /\ tpc = "in"

\* Project::build, lines 50 and 66: the module key of a path.
Normalize ==
    /\ tpc = "in"
    /\ tout' = path_without_extension(tin.path)
    /\ tpc' = "key"
    /\ UNCHANGED <<tin, runVars>>

NextPath == Normalize

SpecPath == InitPath /\ [][NextPath]_vars

InitWrap ==
    /\ RunIdle
    /\ tin \in [key : SeqsUpTo(KeyChars, MaxKeyLen),
                code : SeqsUpTo(SrcChars, MaxSrcLen),
                level : 0..MaxLevel]
    /\ tout = <<>>
    /\ tpc = "in"

IndentBlock ==
    /\ tpc = "in"
    /\ tout' = indent_block(tin.code, tin.level)
    /\ tpc' = "indent"
    /\ UNCHANGED <<tin, runVars>>

InsertModule ==
    /\ tpc = "in"
    /\ tout' = insert_module(tin.key, tin.code, DEFAULT_REQUIRE_FUNCTION,
                             tin.level)
    /\ tpc' = "wrap"
    /\ UNCHANGED <<tin, runVars>>

NextWrap == IndentBlock \/ InsertModule

SpecWrap == InitWrap /\ [][NextWrap]_vars

----------------------------------------------------------------------------
(* Reference notions the properties are stated with; none of them is used  *)
(* by the model of the program.                                            *)

\* The pieces of a text between its line feeds, empty pieces included.
RECURSIVE SplitAt(_, _)
SplitAt(s, c) ==
    IF Positions(s, c) = {} THEN <<s>>
    ELSE LET i == CHOOSE j \in Positions(s, c) :
                      \A k \in Positions(s, c) : j <= k
         IN <<SubSeq(s, 1, i - 1)>> \o SplitAt(SubSeq(s, i + 1, Len(s)), c)

\* The lines of a text: ended by LF or CR LF, the last one needs no ending.
TextLines(s) ==
    LET ps == SplitAt(s, LF)
        n == Len(ps)
        ended == [i \in 1..(n - 1) |->
                     IF ps[i] # <<>> /\ Last(ps[i]) = CR
                     THEN Front(ps[i]) ELSE ps[i]]
    IN IF ps[n] = <<>> THEN ended ELSE Append(ended, ps[n])

Tabs(n) == [i \in 1..n |-> TAB]

\* The file name of a path as written: what follows its last separator.
WrittenName(p) ==
    IF Positions(p, SEP) = {} THEN p
    ELSE SubSeq(p, Max(Positions(p, SEP)) + 1, Len(p))

\* The final extension starts at the last dot of the file name, unless that
\* dot leads the name (a dotfile) or the name is "..".
HasFinalExtension(p) ==
    LET name == WrittenName(p)
    IN /\ name # <<DOT, DOT>>
       /\ Positions(name, DOT) # {}
       /\ Max(Positions(name, DOT)) > 1

StripFinalExtension(p) ==
    IF HasFinalExtension(p)
    THEN LET name == WrittenName(p)
         IN SubSeq(p, 1, Len(p) - (Len(name) - Max(Positions(name, DOT)) + 1))
    ELSE p

\* A path written with single separators, none trailing, and no "." piece
\* after the first.
NormalForm(p) ==
    LET ps == SplitAt(p, SEP)
    IN \A i \in 2..Len(ps) : ps[i] # <<>> /\ ps[i] # <<DOT>>

----------------------------------------------------------------------------
(* Properties of the text functions.                                       *)

\* C4 as stated: for every path, path_without_extension returns the path
\* with exactly its final extension removed (directories, separators and
\* casing untouched), and returns a path with no extension, a dotfile
\* included, unchanged.
C4_RemovesExactlyFinalExtension ==
    tpc = "key" => tout = StripFinalExtension(tin.path)

\* C4 amended: the same, for every path written in normal form (single
\* separators, none trailing, no "." piece after the first).
C4_RemovesFinalExtensionOfNormalPath ==
    (tpc = "key" /\ NormalForm(tin.path))
        => tout = StripFinalExtension(tin.path)

\* A normal path inside a directory whose extension has been removed.
C4_Witness ==
    /\ tpc = "key"
    /\ NormalForm(tin.path)
    /\ Positions(tin.path, SEP) # {}
    /\ HasFinalExtension(tin.path)
    /\ tout # tin.path

\* A dotfile that came back unchanged.
C4_WitnessDotfile ==
    /\ tpc = "key"
    /\ Len(WrittenName(tin.path)) >= 2
    /\ WrittenName(tin.path)[1] = DOT
    /\ WrittenName(tin.path) # <<DOT, DOT>>
    /\ tout = tin.path

EntryLine(key, level) ==
    Tabs(level) \o <<"[\"">> \o key \o <<"\"] = function(functions)">>

OneEntryKeyed(block, key, level) ==
    LET bl == SplitAt(block, LF)
    IN Cardinality({i \in 1..Len(bl) : bl[i] = EntryLine(key, level)}) = 1

\* The lines of the source stand in the block one after the other, each
\* behind level + 1 more tabs.
SourceLinesIndented(block, code, level) ==
    LET bl == SplitAt(block, LF)
        sl == TextLines(code)
    IN \E o \in 0..Len(bl) :
           \A i \in 1..Len(sl) :
               /\ o + i <= Len(bl)
               /\ bl[o + i] = Tabs(level + 1) \o sl[i]

WrapShape ==
    /\ OneEntryKeyed(tout, tin.key, tin.level)
    /\ SourceLinesIndented(tout, tin.code, tin.level)

\* C6 as stated: for any key, source text and level, the block of
\* insert_module holds exactly one factory entry keyed by the key and every
\* line of the source, in order, behind exactly level + 1 more tabs.
C6_WrapShapeForAnyInput == tpc = "wrap" => WrapShape

NoLineEndsInCR(code) ==
    \A i \in 1..Len(TextLines(code)) :
        LET l == TextLines(code)[i] IN l = <<>> \/ Last(l) # CR

\* C6 amended: the same, for a key that holds no line feed and a source
\* none of whose lines ends in a carriage return (no CR CR LF, no final CR).
C6_WrapShapeForPlainInput ==
    (tpc = "wrap" /\ Positions(tin.key, LF) = {} /\ NoLineEndsInCR(tin.code))
        => WrapShape

\* A source of two lines, one of them indented already, wrapped at level 1.
C6_Witness ==
    /\ tpc = "wrap"
    /\ Positions(tin.key, LF) = {}
    /\ tin.key # <<>>
    /\ NoLineEndsInCR(tin.code)
    /\ Len(TextLines(tin.code)) >= 2
    /\ Positions(tin.code, TAB) # {}
    /\ tin.level >= 1

\* C7 as stated: for level >= 1 every empty line of the input is an empty
\* line of the output of indent_block, and the empty line that opens the
\* wrapped entry, the one after the accessor statement and the empty lines
\* of the source are empty lines of the output of insert_module.
C7_BlankLinesStayBlank ==
    LET bl == SplitAt(tout, LF)
        sl == TextLines(tin.code)
    IN /\ (tpc = "indent" /\ tin.level >= 1)
           => \A i \in 1..Len(sl) : sl[i] = <<>> => bl[i] = <<>>
       /\ (tpc = "wrap" /\ tin.level >= 1)
           => /\ bl[1] = <<>>
              /\ bl[4] = <<>>
              /\ \A i \in 1..Len(sl) : sl[i] = <<>> => bl[4 + i] = <<>>

----------------------------------------------------------------------------
(* Properties of the run.                                                  *)

Range(f) == {f[i] : i \in DOMAIN f}

TableOpen == <<LF, "local files = {">>

TableClose == <<LF, "}", LF>>

\* C1: every bundle written is the runtime preamble, the module-table open,
\* one wrapped block per element of project.files in the order of the list
\* (a path listed twice gives two blocks), the module-table close and one
\* entry-point invocation on the module key of project.entry_point.
C1_BundleLayout ==
    \A i \in 1..Len(written) :
        LET w == written[i]
            p == projects[w.proj]
            n == Len(p.files)
        IN /\ Len(w.srcs) = n
           /\ w.text =
                  Preamble \o TableOpen
                  \o Concat([j \in 1..n |->
                         insert_module(path_without_extension(p.files[j]),
                                       w.srcs[j], DEFAULT_REQUIRE_FUNCTION, 1)])
                  \o TableClose
                  \o insert_entry_point(path_without_extension(p.entry_point))

\* A bundle has been written for a project that lists one path twice.
C1_Witness ==
    \E i \in 1..Len(written) :
        LET f == projects[written[i].proj].files
        IN \E a, b \in 1..Len(f) : a < b /\ f[a] = f[b]

ListedPaths(table) ==
    [i \in 1..Len(table.files[1].val) |-> table.files[1].val[i].val]

\* A project table the resolver has to accept: its entry point exists, its
\* files list is there and every listed path exists.
ValidTable(table) ==
    /\ table.entry_point # None
    /\ exists(table.entry_point[1].val)
    /\ table.files # None
    /\ \A i \in 1..Len(ListedPaths(table)) : exists(ListedPaths(table)[i])

TablesWritten == {origin[written[i].proj] : i \in 1..Len(written)}

InvalidTables(n) == {i \in 1..n : ~ValidTable(manifest.tables[i])}

\* Failures of the environment, which end the run whatever the manifest.
EnvironmentCauses == {"manifest", "toml", "read", "launch", "mkdir", "write"}

\* C2: with a project list that holds an invalid project, unless the
\* environment fails, the run ends normally with every invalid project
\* reported and not written and every valid project built and written.
C2_InvalidSkippedOthersBuilt ==
    (/\ manifest.state = "list"
     /\ InvalidTables(Len(manifest.tables)) # {}
     /\ pc \in {"done", "aborted"}
     /\ abortCause \notin EnvironmentCauses)
        => /\ pc = "done"
           /\ Len(errors) = Cardinality(InvalidTables(Len(manifest.tables)))
           /\ \A i \in 1..Len(manifest.tables) :
                  ValidTable(manifest.tables[i]) <=> i \in TablesWritten

\* C3: when build.toml is absent or has no project list, the run reports
\* the error and ends with nothing resolved, built or written.
C3_NoManifestNoOutput ==
    (manifest.state \in {"absent", "nolist"} /\ pc # "load")
        => /\ pc = "done"
           /\ errors = <<IF manifest.state = "absent"
                         THEN E_NoBuildFile ELSE E_NoProjectField>>
           /\ idx = 0
           /\ projects = <<>>
           /\ cur = 0
           /\ calls = <<>>
           /\ written = <<>>
           /\ disk = EmptyDisk

\* The run of a manifest without the project list has ended.
C3_Witness == manifest.state = "nolist" /\ pc = "done" /\ errors # <<>>

\* The extension of a path as written: what follows the last dot of its
\* file name.
IsFnl(path) ==
    /\ HasFinalExtension(path)
    /\ LET name == WrittenName(path)
       IN SubSeq(name, Max(Positions(name, DOT)) + 1, Len(name)) = Fnl

CallsFor(k, j) == {c \in Range(calls) : c.proj = k /\ c.idx = j}

\* The bundle of a file list, an entry point and the text bundled for each
\* file; the declared dialect is no part of it.
ExpectedBundle(files, entry_point, texts) ==
    Preamble \o TableOpen
    \o Concat([j \in 1..Len(files) |->
           insert_module(StripFinalExtension(files[j]), texts[j],
                         <<"require">>, 1)])
    \o TableClose
    \o insert_entry_point(StripFinalExtension(entry_point))

\* C5: the compiler is run on the contents of the files whose extension is
\* fnl and on no other; a written bundle wraps the compiler's output for
\* those and the unchanged contents for the others, whatever lua_version.
C5_DispatchByExtension ==
    /\ \A c \in Range(calls) :
           LET file == projects[c.proj].files[c.idx]
           IN IsFnl(file) /\ c.src = Content(file)
    /\ \A i \in 1..Len(written) :
           LET w == written[i]
               p == projects[w.proj]
           IN /\ \A j \in 1..Len(p.files) :
                     Cardinality(CallsFor(w.proj, j))
                         = IF IsFnl(p.files[j]) THEN 1 ELSE 0
              /\ w.text = ExpectedBundle(p.files, p.entry_point,
                     [j \in 1..Len(p.files) |->
                         IF IsFnl(p.files[j])
                         THEN (CHOOSE c \in CallsFor(w.proj, j) : TRUE).out
                         ELSE Content(p.files[j])])

\* A bundle has been written for a project declared Fennel that lists a
\* lua file and a fnl file the compiler has translated.
C5_Witness ==
    \E i \in 1..Len(written) :
        LET p == projects[written[i].proj]
        IN /\ p.lua_version = "Fennel"
           /\ \E j \in 1..Len(p.files) : ~IsFnl(p.files[j])
           /\ \E c \in Range(calls) :
                  c.proj = written[i].proj /\ c.out # c.src /\ c.out # <<>>

\* C8: the build never aborts because a listed file has no extension, and
\* such a file is bundled under its unchanged path with its contents.
C8_ExtensionlessFileBundled ==
    /\ ~(pc = "aborted" /\ abortCause = "extension")
    /\ \A i \in 1..Len(written) :
           LET w == written[i]
               p == projects[w.proj]
           IN \A j \in 1..Len(p.files) :
                  ~HasFinalExtension(p.files[j])
                      => w.srcs[j] = Content(p.files[j])

BuildCauses == {"read", "extension", "launch", "mkdir", "write"}

\* Whether the output path of project i is that of a later project up to k.
PathReused(i, k) ==
    \E j \in (i + 1)..k :
        j <= Len(projects)
        /\ OutputPath(projects[j]) = OutputPath(projects[i])

HoldsBundleOf(i) ==
    LET path == OutputPath(projects[i])
    IN /\ written[i].proj = i
       /\ written[i].path = path
       /\ Last(written[i].text) = "\")"
       /\ path \in DOMAIN disk
       /\ disk[path] = written[i].text

\* C9 as stated: when the build of project k fails fatally, the output of
\* every project before k is on disk with its complete bundle and nothing
\* has been written for the successors of k.
C9_EarlierOutputsAllOnDisk ==
    (pc = "aborted" /\ abortCause \in BuildCauses)
        => /\ Len(written) = cur - 1
           /\ \A i \in 1..(cur - 1) : HoldsBundleOf(i)

\* C9 amended: the same for every project before k whose output path is not
\* the output path of a later project up to and including k; the others
\* have been written too, and their file holds what a later build left.
C9_EarlierOutputsOnDiskUnlessPathReused ==
    (pc = "aborted" /\ abortCause \in BuildCauses)
        => /\ Len(written) = cur - 1
           /\ \A i \in 1..(cur - 1) :
                  /\ written[i].proj = i
                  /\ OutputPath(projects[i]) \in DOMAIN disk
                  /\ ~PathReused(i, cur) => HoldsBundleOf(i)
           /\ \A path \in DOMAIN disk :
                  \E i \in 1..cur : path = OutputPath(projects[i])

\* The write of the second project has failed after the first was written
\* to another path.
C9_Witness ==
    /\ pc = "aborted"
    /\ abortCause = "write"
    /\ cur = 2
    /\ ~PathReused(1, 2)
    /\ Len(written) = 1

\* C10: nothing is written before every project table has been resolved:
\* at a write all tables have been visited and all skip reports printed,
\* and a fatal failure in the resolver leaves nothing written.
C10_ResolveBeforeBuild ==
    /\ (written # <<>> \/ DOMAIN disk # {} \/ pc \in {"build", "file"})
           => /\ idx = Len(manifest.tables)
              /\ Len(errors) = Cardinality(InvalidTables(Len(manifest.tables)))
    /\ (pc \in {"load", "resolve"} \/ abortCause \in {"manifest", "toml"})
           => /\ written = <<>>
              /\ disk = EmptyDisk
              /\ calls = <<>>

\* The last table of the manifest made the resolver panic after an earlier
\* project had been accepted.
C10_Witness ==
    /\ pc = "aborted"
    /\ abortCause = "toml"
    /\ idx = Len(manifest.tables)
    /\ projects # <<>>

\* A bundle has been written in a run that had skipped a later table.
C10_WitnessSkipBeforeWrite ==
    /\ written # <<>>
    /\ \E i \in InvalidTables(Len(manifest.tables)) : i > origin[1]

====
